---- MODULE Spec2Model ----
(***************************************************************************)
(* Model of the timed assessment session engine and the proctoring warning *)
(* ledger of EduSmart (routes/student.py, models.py).                      *)
(*                                                                         *)
(* Time is counted in ticks; TicksPerSecond ticks make one second, so that *)
(* the truncation of int(timedelta.total_seconds()) and the strict         *)
(* comparison of the debounce are visible.  One student and one test are   *)
(* modelled for the session engine; the warning ledger is keyed by the     *)
(* attempt id sent by the client.                                          *)
(***************************************************************************)
EXTENDS Integers, Sequences, FiniteSets, TLC

(***************************************************************************)
(* Bounds of the model                                                     *)
(***************************************************************************)
TicksPerSecond == 2      \* clock resolution of the model
Epoch == 10              \* first clock reading (time.time() is far from 0)
MaxLogs == 6             \* proctoring_log rows written per behaviour
MaxProctorSeconds == 11  \* clock range of the proctoring specification
MaxAttemptId == 1        \* attempt ids a client sends to analyze_frame
MaxFrameLogs == 2        \* proctoring_log rows in the classifier specification
MaxFrameSeconds == 3     \* clock range of the classifier specification
MaxRequests == 2         \* requests served at the same time
MaxOpenAttempts == 2     \* attempts one client has open at the same time

(***************************************************************************)
(* Program constants                                                       *)
(***************************************************************************)
SecondsPerMinute == 60   \* timedelta(minutes=m)
DebounceSeconds == 2     \* now_ts - last_warn_time > 2
WarnThreshold == 5       \* session.get(warn_key, 0) >= 5
MobileConfPercent == 30  \* conf > 0.3
GazeLowPercent == 35     \* 0.35 < eye_center
GazeHighPercent == 65    \* eye_center < 0.65

NoTime == -1             \* a NULL DateTime column
NoOption == "-"          \* a NULL / empty selected_option
Options == {"A", "B"}
OptionInputs == Options \cup {NoOption}

Minutes(m) == m * SecondsPerMinute * TicksPerSecond
Seconds(s) == s * TicksPerSecond

\* test.questions of the modelled test: the correct_option of each Question,
\* in order; question ids are the positions in this list
Questions == <<"A", "B">>

\* Question.correct_option
correct_option(qid) == Questions[qid]

\* question_index of the routes (<int:question_index> matches no negative
\* number); one value past the last index is included
IndexInputs == 0..Len(Questions)

VARIABLES
  now,          \* datetime.now() / time.time(), in ticks
  enrolled,     \* a StudentClass row exists for (current_user, class of test)
  test,         \* the Test row: start_time, end_time, duration_minutes
  attempts,     \* rows of test_attempt of (current_user, test), in id order
  answers,      \* rows of student_answer, in id order
  logs,         \* rows of proctoring_log, in id order
  warnings,     \* session["warnings_<uid>_<attempt_id>"], 0 when absent
  last_warn,    \* session["last_warn_<uid>_<attempt_id>"], 0 when absent
  accepted,     \* history: warnings accepted so far, per attempt id
  last_accept,  \* history: clock reading of the last accepted warning
  cause,        \* history: which finalize block ran first for the attempt
  resp,         \* history: the last request served and its response
  pending       \* requests being served concurrently: position and locals

vars ==
  <<now, enrolled, test, attempts, answers, logs, warnings, last_warn,
    accepted, last_accept, cause, resp, pending>>

(***************************************************************************)
(* Pure helpers                                                            *)
(***************************************************************************)
Min(a, b) == IF a <= b THEN a ELSE b

\* int(x) of Python truncates toward zero
TruncSeconds(ticks) ==
  IF ticks >= 0 THEN ticks \div TicksPerSecond
  ELSE 0 - ((0 - ticks) \div TicksPerSecond)

\* Query.filter_by(...).count()
RECURSIVE CountRows(_, _)
CountRows(rows, flag) ==
  IF rows = <<>> THEN 0
  ELSE (IF Head(rows).is_correct = flag THEN 1 ELSE 0) + CountRows(Tail(rows), flag)

\* indices of the student_answer rows of one (attempt, question)
RowsOf(rows, aid, qid) ==
  {i \in 1..Len(rows) : rows[i].attempt_id = aid /\ rows[i].question_id = qid}

\* Query.filter_by(attempt_id, question_id).first(): index of the row, 0 for None
FirstRow(rows, aid, qid) ==
  IF RowsOf(rows, aid, qid) = {} THEN 0
  ELSE CHOOSE i \in RowsOf(rows, aid, qid) : \A j \in RowsOf(rows, aid, qid) : i <= j

AttemptRows(rows, aid) == SelectSeq(rows, LAMBDA r : r.attempt_id = aid)

\* mutant: the attempt is stamped later than the request
NewAttemptLate(t) ==
  [id |-> 1, attempted_at |-> t + 1, end_time |-> NoTime,
   total_questions |-> 0, correct_answers |-> 0, wrong_answers |-> 0,
   score |-> 0, auto_submitted_due_to_violation |-> FALSE]

\* TestAttempt(student_id, test_id, attempted_at=now) with the column defaults
NewAttempt(t) ==
  [id |-> 1, attempted_at |-> t, end_time |-> NoTime,
   total_questions |-> 0, correct_answers |-> 0, wrong_answers |-> 0,
   score |-> 0, auto_submitted_due_to_violation |-> FALSE]

\* mutant: the clamp to test.end_time is forgotten
ComputeDeadlineNoClamp(att, tst) ==
  IF att.end_time = NoTime
  THEN [att EXCEPT !.end_time = att.attempted_at + Minutes(tst.duration_minutes)]
  ELSE att

\* mutant: the deadline is recomputed on every request, from the request time
ComputeDeadlineSliding(att, tst) ==
  IF tst.end_time # NoTime
  THEN [att EXCEPT !.end_time = Min(tst.end_time, now + Minutes(tst.duration_minutes))]
  ELSE [att EXCEPT !.end_time = now + Minutes(tst.duration_minutes)]

\* "Dynamic end_time" block of start_test
ComputeDeadline(att, tst) ==
  IF att.end_time = NoTime
  THEN IF tst.end_time # NoTime
       THEN [att EXCEPT !.end_time =
               Min(tst.end_time, att.attempted_at + Minutes(tst.duration_minutes))]
       ELSE [att EXCEPT !.end_time = att.attempted_at + Minutes(tst.duration_minutes)]
  ELSE att

\* remaining_seconds = int((attempt.end_time - now).total_seconds())
RemainingSeconds(att, t) == TruncSeconds(att.end_time - t)

\* mutant: counters of an attempt that was finalized before are trusted
FinalizeKeep(att, rows, total) ==
  IF att.total_questions # 0 THEN att
  ELSE [att EXCEPT !.correct_answers = CountRows(AttemptRows(rows, att.id), TRUE),
                   !.wrong_answers = CountRows(AttemptRows(rows, att.id), FALSE),
                   !.total_questions = total,
                   !.score = CountRows(AttemptRows(rows, att.id), TRUE)]

\* mutant: the counters are incremented instead of recomputed
FinalizeAccumulate(att, rows, total) ==
  [att EXCEPT !.correct_answers = @ + CountRows(AttemptRows(rows, att.id), TRUE),
              !.wrong_answers = @ + CountRows(AttemptRows(rows, att.id), FALSE),
              !.total_questions = total,
              !.score = @ + CountRows(AttemptRows(rows, att.id), TRUE)]

\* mutant: rows without a selection are left out of the wrong count
FinalizeSelectedOnly(att, rows, total) ==
  [att EXCEPT !.correct_answers = CountRows(AttemptRows(rows, att.id), TRUE),
              !.wrong_answers =
                 CountRows(SelectSeq(AttemptRows(rows, att.id),
                                     LAMBDA r : r.selected_option # NoOption), FALSE),
              !.total_questions = total,
              !.score = CountRows(AttemptRows(rows, att.id), TRUE)]

\* the four assignments every submit block makes to the attempt
Finalize(att, rows, total) ==
  [att EXCEPT !.correct_answers = CountRows(AttemptRows(rows, att.id), TRUE),
              !.wrong_answers = CountRows(AttemptRows(rows, att.id), FALSE),
              !.total_questions = total,
              !.score = CountRows(AttemptRows(rows, att.id), TRUE)]

\* mutant: the posted selection is stored even when it is empty
RecordAnswerPageOverwrite(rows, aid, qid, sel, mark) ==
  LET i == FirstRow(rows, aid, qid)
      row == [attempt_id |-> aid, question_id |-> qid, selected_option |-> sel,
              is_correct |-> IF sel # NoOption THEN sel = correct_option(qid) ELSE FALSE,
              marked_for_review |-> mark]
  IN  IF i = 0 THEN Append(rows, row) ELSE [rows EXCEPT ![i] = row]

\* mutant: a row is inserted on every POST
RecordAnswerPageAlwaysInsert(rows, aid, qid, sel, mark) ==
  Append(rows, [attempt_id |-> aid, question_id |-> qid, selected_option |-> sel,
                is_correct |-> IF sel # NoOption THEN sel = correct_option(qid) ELSE FALSE,
                marked_for_review |-> mark])

\* POST handler of start_test: create or update the StudentAnswer
RecordAnswerPage(rows, aid, qid, sel, mark) ==
  LET i == FirstRow(rows, aid, qid) IN
  IF i = 0
  THEN Append(rows, [attempt_id |-> aid, question_id |-> qid,
                     selected_option |-> sel,
                     is_correct |-> IF sel # NoOption THEN sel = correct_option(qid) ELSE FALSE,
                     marked_for_review |-> mark])
  ELSE [rows EXCEPT ![i] =
          [(IF sel # NoOption
            THEN [@ EXCEPT !.selected_option = sel,
                           !.is_correct = (sel = correct_option(qid))]
            ELSE @)
           EXCEPT !.marked_for_review = mark]]

\* mutant: "clear" forgets to reset is_correct
RecordAnswerAjaxStaleClear(rows, aid, qid, action, sel) ==
  LET i0 == FirstRow(rows, aid, qid)
      rows1 == IF i0 = 0
               THEN Append(rows, [attempt_id |-> aid, question_id |-> qid,
                                  selected_option |-> NoOption, is_correct |-> FALSE,
                                  marked_for_review |-> FALSE])
               ELSE rows
      i == IF i0 = 0 THEN Len(rows1) ELSE i0
  IN  IF action = "mark"
      THEN [rows1 EXCEPT ![i].marked_for_review = TRUE]
      ELSE IF action = "clear"
      THEN [rows1 EXCEPT ![i].selected_option = NoOption,
                         ![i].marked_for_review = FALSE]
      ELSE IF sel # NoOption
      THEN [rows1 EXCEPT ![i].selected_option = sel,
                         ![i].is_correct = (sel = correct_option(qid))]
      ELSE rows1

\* mutant: only the action "save" stores the selection
RecordAnswerAjaxSaveOnly(rows, aid, qid, action, sel) ==
  LET i0 == FirstRow(rows, aid, qid)
      rows1 == IF i0 = 0
               THEN Append(rows, [attempt_id |-> aid, question_id |-> qid,
                                  selected_option |-> NoOption, is_correct |-> FALSE,
                                  marked_for_review |-> FALSE])
               ELSE rows
      i == IF i0 = 0 THEN Len(rows1) ELSE i0
  IN  IF action = "mark"
      THEN [rows1 EXCEPT ![i].marked_for_review = TRUE]
      ELSE IF action = "clear"
      THEN [rows1 EXCEPT ![i].selected_option = NoOption,
                         ![i].is_correct = FALSE,
                         ![i].marked_for_review = FALSE]
      ELSE IF sel # NoOption /\ action = "save"
      THEN [rows1 EXCEPT ![i].selected_option = sel,
                         ![i].is_correct = (sel = correct_option(qid))]
      ELSE rows1

\* ajax_save_answer: get-or-create the StudentAnswer, then apply the action
RecordAnswerAjax(rows, aid, qid, action, sel) ==
  LET i0 == FirstRow(rows, aid, qid)
      rows1 == IF i0 = 0
               THEN Append(rows, [attempt_id |-> aid, question_id |-> qid,
                                  selected_option |-> NoOption, is_correct |-> FALSE,
                                  marked_for_review |-> FALSE])
               ELSE rows
      i == IF i0 = 0 THEN Len(rows1) ELSE i0
  IN  IF action = "mark"
      THEN [rows1 EXCEPT ![i].marked_for_review = TRUE]
      ELSE IF action = "clear"
      THEN [rows1 EXCEPT ![i].selected_option = NoOption,
                         ![i].is_correct = FALSE,
                         ![i].marked_for_review = FALSE]
      ELSE IF sel # NoOption
      THEN [rows1 EXCEPT ![i].selected_option = sel,
                         ![i].is_correct = (sel = correct_option(qid))]
      ELSE rows1

\* navigation of the POST handler of start_test: the index redirected to
NavigatePage(qi, nav, total) ==
  IF nav = "next" /\ qi + 1 < total THEN qi + 1
  ELSE IF nav = "prev" /\ qi > 0 THEN qi - 1
  ELSE qi

\* mutant: "next" does not stop at the last question
NavigateAjaxNoClamp(qi, action, total) ==
  IF action = "next" THEN qi + 1
  ELSE IF action = "prev" /\ qi > 0 THEN qi - 1
  ELSE qi

\* new_index of ajax_save_answer
NavigateAjax(qi, action, total) ==
  IF action = "next" /\ qi + 1 < total THEN qi + 1
  ELSE IF action = "prev" /\ qi > 0 THEN qi - 1
  ELSE qi

\* mutant: the index one past the last question is let through
OutOfRangeLoose(qi, total) == qi < 0 \/ qi > total

\* question_index < 0 or question_index >= total_questions
OutOfRange(qi, total) == qi < 0 \/ qi >= total

\* test.start_time and now < test.start_time
NotYetOpen(tst, t) == tst.start_time # NoTime /\ t < tst.start_time

\* mutant: the test is closed from its end_time on
AlreadyClosedAtEnd(tst, t) == tst.end_time # NoTime /\ t >= tst.end_time

\* test.end_time and now > test.end_time
AlreadyClosed(tst, t) == tst.end_time # NoTime /\ t > tst.end_time

\* mutant: a selection is looked at before the review flag
QStateAnsweredFirst(rows, aid, idx, qi) ==
  LET i == FirstRow(rows, aid, idx + 1) IN
  IF i # 0 /\ rows[i].selected_option # NoOption THEN "answered"
  ELSE IF i # 0 /\ rows[i].marked_for_review THEN "review"
  ELSE IF i # 0 \/ idx = qi THEN "visited"
  ELSE "not_visited"

\* "Sidebar State" / "Update q_states": the visit state of question index idx
QState(rows, aid, idx, qi) ==
  LET i == FirstRow(rows, aid, idx + 1) IN
  IF i # 0 /\ rows[i].marked_for_review THEN "review"
  ELSE IF i # 0 /\ rows[i].selected_option # NoOption THEN "answered"
  ELSE IF i # 0 \/ idx = qi THEN "visited"
  ELSE "not_visited"

QStates(rows, aid, qi) == [k \in 1..Len(Questions) |-> QState(rows, aid, k - 1, qi)]

\* first finalize cause wins in the history variable
FirstCause(c, new) == IF c = "none" THEN new ELSE c

Response(op, status, idx) ==
  [op |-> op, status |-> status, index |-> idx, attempt_id |-> 0,
   auto_submit |-> FALSE, warnings |-> 0, suspicious |-> "none", frame |-> "none",
   mesh |-> "not_run", q_states |-> <<>>]

\* a response that carries q_states (the rendered page, the ajax JSON)
View(op, status, idx, states) ==
  [Response(op, status, idx) EXCEPT !.q_states = states]

(***************************************************************************)
(* Inputs                                                                  *)
(***************************************************************************)
\* clock readings at which requests of the session engine arrive: just before
\* and when the test opens, and at the end of the one-minute budget
Instants == {Epoch, Epoch + 1, Epoch + Minutes(1), Epoch + Minutes(1) + 1}

\* the Test rows a teacher may have created (create_test)
TestInputs ==
  {[start_time |-> Epoch + 1, end_time |-> NoTime, duration_minutes |-> 1],
   [start_time |-> Epoch + 1, end_time |-> Epoch + Minutes(1), duration_minutes |-> 1]}

NavInputs == {"none", "next", "prev", "submit"}
AjaxActions == {"save", "mark", "clear", "next", "prev", "submit"}
\* the (question_index, selected_option, mark, button) of a POST to start_test;
\* the handler returns before reading the form when the index is out of
\* range, so one form stands for all there
PostInputs ==
  {r \in IndexInputs \X OptionInputs \X BOOLEAN \X NavInputs :
     r[1] >= Len(Questions) => (r[2] = NoOption /\ ~r[3] /\ r[4] = "none")}
\* the (question_index, action, selected_option) of an ajax request; mark and
\* clear never read selected_option, nor does a request out of range
AjaxInputs ==
  {r \in IndexInputs \X AjaxActions \X OptionInputs :
     /\ r[2] \in {"mark", "clear"} => r[3] = NoOption
     /\ r[1] >= Len(Questions) => (r[2] = "save" /\ r[3] = NoOption)}
AttemptIds == 1..MaxAttemptId

\* the requests a server thread may be serving at the same time
Requests == 1..MaxRequests

\* a thread that serves no request
IdleRequest ==
  [pc |-> "idle", t |-> 0, qi |-> 0, action |-> "none", sel |-> NoOption,
   att |-> 0, row |-> 0, correct |-> 0, window |-> {}]

(***************************************************************************)
(* join_class                                                              *)
(***************************************************************************)
JoinClass ==
  /\ ~enrolled
  /\ enrolled' = TRUE
  /\ resp' = Response("join_class", "joined", 0)
  /\ UNCHANGED <<pending, now, test, attempts, answers, logs, warnings, last_warn, accepted,
               last_accept, cause>>

(***************************************************************************)
(* start_test (GET and POST)                                               *)
(***************************************************************************)
\* What a handler leaves behind: the tables it committed, the history of the
\* first finalize, and its response
Effect(atts, rows, c, r) == [attempts |-> atts, answers |-> rows, cause |-> c, resp |-> r]

\* start_test served at clock reading t on the tables of s
StartTestEffect(s, t, method, qi, sel, mark, nav) ==
  IF ~enrolled
  THEN Effect(s.attempts, s.answers, s.cause, Response("start_test", "not_enrolled", 0))
  ELSE IF NotYetOpen(test, t)
  THEN Effect(s.attempts, s.answers, s.cause, Response("start_test", "not_yet_open", 0))
  ELSE IF AlreadyClosed(test, t)
  THEN Effect(s.attempts, s.answers, s.cause, Response("start_test", "already_closed", 0))
  ELSE
    LET att0 == IF s.attempts = <<>> THEN NewAttempt(t) ELSE s.attempts[1]
        att == ComputeDeadline(att0, test)
        total == Len(Questions)
        rows == RecordAnswerPage(s.answers, att.id, qi + 1, sel, mark)
    IN
    IF RemainingSeconds(att, t) <= 0
    THEN Effect(<<Finalize(att, s.answers, total)>>, s.answers,
                FirstCause(s.cause, "timeout"), Response("start_test", "time_over", 0))
    ELSE IF total = 0
    THEN Effect(<<att>>, s.answers, s.cause, Response("start_test", "no_questions", 0))
    ELSE IF OutOfRange(qi, total)
    THEN Effect(<<att>>, s.answers, s.cause, Response("start_test", "out_of_range", 0))
    ELSE IF method # "POST"
    THEN Effect(<<att>>, s.answers, s.cause,
                View("start_test", "render", qi, QStates(s.answers, att.id, qi)))
    ELSE IF NavigatePage(qi, nav, total) # qi
    THEN Effect(<<att>>, rows, s.cause,
                Response("start_test", "redirect", NavigatePage(qi, nav, total)))
    ELSE IF nav = "submit"
    THEN Effect(<<Finalize(att, rows, total)>>, rows,
                FirstCause(s.cause, "manual"), Response("start_test", "submitted", 0))
    ELSE Effect(<<att>>, rows, s.cause,
                View("start_test", "render", qi, QStates(rows, att.id, qi)))

\* the tables and history a request finds
Stored == [attempts |-> attempts, answers |-> answers, cause |-> cause]

Commit(e) ==
  /\ attempts' = e.attempts
  /\ answers' = e.answers
  /\ cause' = e.cause
  /\ resp' = e.resp

StartTest(method, qi, sel, mark, nav) ==
  /\ Commit(StartTestEffect(Stored, now, method, qi, sel, mark, nav))
  /\ UNCHANGED <<pending, now, enrolled, test, logs, warnings, last_warn, accepted,
               last_accept>>

StartTestGet(qi) == StartTest("GET", qi, NoOption, FALSE, "none")

StartTestPost(qi, sel, mark, nav) == StartTest("POST", qi, sel, mark, nav)

(***************************************************************************)
(* ajax_save_answer                                                        *)
(***************************************************************************)
AjaxEffect(s, qi, action, sel) ==
  IF s.attempts = <<>>
  THEN Effect(s.attempts, s.answers, s.cause,
              Response("ajax_save_answer", "attempt_not_found", 0))
  ELSE IF OutOfRange(qi, Len(Questions))
  THEN Effect(s.attempts, s.answers, s.cause,
              Response("ajax_save_answer", "invalid_index", 0))
  ELSE
    LET att == s.attempts[1]
        rows == RecordAnswerAjax(s.answers, att.id, qi + 1, action, sel)
    IN
    IF action = "submit"
    THEN Effect(<<Finalize(att, rows, Len(Questions))>>, rows,
                FirstCause(s.cause, "manual"), Response("ajax_save_answer", "submitted", 0))
    ELSE Effect(s.attempts, rows, s.cause,
                View("ajax_save_answer", "saved", NavigateAjax(qi, action, Len(Questions)),
                     QStates(rows, att.id, qi)))

AjaxSaveAnswer(qi, action, sel) ==
  /\ Commit(AjaxEffect(Stored, qi, action, sel))
  /\ UNCHANGED <<pending, now, enrolled, test, logs, warnings, last_warn, accepted,
               last_accept>>

(***************************************************************************)
(* The clock                                                               *)
(***************************************************************************)
Tick ==
  /\ \E t \in Instants : t > now /\ now' = t
  /\ resp' = Response("tick", "none", 0)
  /\ UNCHANGED <<pending, enrolled, test, attempts, answers, logs, warnings, last_warn, accepted,
               last_accept, cause>>

(***************************************************************************)
(* The session engine                                                      *)
(***************************************************************************)
Init ==
  /\ now = Epoch
  /\ enrolled = FALSE
  /\ test \in TestInputs
  /\ attempts = <<>>
  /\ answers = <<>>
  /\ logs = <<>>
  /\ warnings = [a \in AttemptIds |-> 0]
  /\ last_warn = [a \in AttemptIds |-> 0]
  /\ accepted = [a \in AttemptIds |-> 0]
  /\ last_accept = [a \in AttemptIds |-> 0]
  /\ cause = "none"
  /\ resp = Response("init", "none", 0)
  /\ pending = [r \in Requests |-> IdleRequest]

Next ==
  \/ JoinClass
  \/ \E qi \in IndexInputs : StartTestGet(qi)
  \/ \E r \in PostInputs : StartTestPost(r[1], r[2], r[3], r[4])
  \/ \E r \in AjaxInputs : AjaxSaveAnswer(r[1], r[2], r[3])
  \/ Tick

Spec == Init /\ [][Next]_vars

(***************************************************************************)
(* analyze_frame                                                           *)
(***************************************************************************)
\* What one posted frame makes the decoder, YOLO, FaceMesh and the database
\* do.  frame: "missing" (no frame in the request), "malformed" (the decode
\* block raises: no comma, bad base64 padding, an empty buffer), "undecodable"
\* (the bytes are no image: cv2.imdecode returns None and raises nothing) or
\* "ok"; yolo_ok: the detector call returns (on a None frame the detector
\* either raises or runs on its default source, so both values occur there);
\* db_ok: the commit of the log row succeeds.  persons: boxes labelled "person"; phone_conf: confidence in percent of
\* a "cell phone" box, 0 when there is none; mesh: "landmarks", "none" (no
\* multi_face_landmarks) or "error" (an exception in the eye-gaze block);
\* eye_x, eye_y: the eye centre in percent of the frame.
Scene(frame, yolo_ok, persons, phone_conf, mesh, eye_x, eye_y, db_ok) ==
  [frame |-> frame, yolo_ok |-> yolo_ok, persons |-> persons,
   phone_conf |-> phone_conf, mesh |-> mesh, eye_x |-> eye_x, eye_y |-> eye_y,
   db_ok |-> db_ok]

\* check_eye_gaze
check_eye_gaze(x, y) ==
  ~(GazeLowPercent < x /\ x < GazeHighPercent /\ GazeLowPercent < y /\ y < GazeHighPercent)

\* the outcome of the eye-gaze block: cv2.cvtColor raises on a None frame
MeshOf(sc) == IF sc.frame = "undecodable" THEN "error" ELSE sc.mesh

\* the detection booleans computed from the model outputs
Detect(sc) ==
  LET yolo_face == sc.persons >= 1 IN
  [face_detected |-> IF MeshOf(sc) = "none" THEN FALSE ELSE yolo_face,
   multiple_faces |-> sc.persons > 1,
   mobile_detected |-> sc.phone_conf > MobileConfPercent,
   eye_gaze_away |-> IF MeshOf(sc) = "landmarks" THEN check_eye_gaze(sc.eye_x, sc.eye_y)
                     ELSE FALSE]

\* mutant: the phone is tested before the face
SuspiciousPhoneFirst(d) ==
  IF d.mobile_detected THEN "Mobile phone detected"
  ELSE IF ~d.face_detected THEN "No face detected"
  ELSE IF d.multiple_faces THEN "Multiple people detected"
  ELSE IF d.eye_gaze_away THEN "Eye gaze away"
  ELSE "none"

\* "Determine suspicious activity"
Suspicious(d) ==
  IF ~d.face_detected THEN "No face detected"
  ELSE IF d.multiple_faces THEN "Multiple people detected"
  ELSE IF d.mobile_detected THEN "Mobile phone detected"
  ELSE IF d.eye_gaze_away THEN "Eye gaze away"
  ELSE "none"

\* ProctoringLog(...) with the column defaults
LogRow(aid, d) ==
  [attempt_id |-> aid, face_detected |-> d.face_detected,
   multiple_faces |-> d.multiple_faces, mobile_detected |-> d.mobile_detected,
   eye_gaze_away |-> d.eye_gaze_away, suspicious_activity |-> Suspicious(d),
   warning_level |-> 0, auto_submitted |-> FALSE]

\* mutant: the debounce test forgets the label
WarningAcceptedAnyFrame(suspicious, t, last) ==
  t - last > Seconds(DebounceSeconds)

\* the debounce test of "Manage warnings"
WarningAccepted(suspicious, t, last) ==
  suspicious # "none" /\ t - last > Seconds(DebounceSeconds)

\* the warning count after the debounce step
CountAfter(count, suspicious, t, last) ==
  IF WarningAccepted(suspicious, t, last) THEN count + 1 ELSE count

\* mutant: the threshold test is off by one
EscalatesLate(count) == count > WarnThreshold

\* auto_submit
Escalates(count) == count >= WarnThreshold

AnalyzeResponse(status, aid, suspicious, count, auto, frame, mesh) ==
  [op |-> "analyze_frame", status |-> status, index |-> 0, attempt_id |-> aid,
   auto_submit |-> auto, warnings |-> count, suspicious |-> suspicious,
   frame |-> frame, mesh |-> mesh, q_states |-> <<>>]

\* mutant: only suspicious frames are logged
LogAfterSuspiciousOnly(rows, aid, d) ==
  IF Suspicious(d) # "none" THEN Append(rows, LogRow(aid, d)) ELSE rows

\* "Log to DB": db.session.add(log); db.session.commit()
LogAfter(rows, aid, d) == Append(rows, LogRow(aid, d))

\* analyze_frame on one frame.  The warning counters live in the Flask
\* session, which is stored by the response: delivered says whether the
\* response of this cycle reached the client (FALSE: the client closed the
\* connection while the frame was analysed).
AnalyzeFrameServed(aid, sc, delivered) ==
  /\ UNCHANGED <<pending, now, enrolled, test, attempts, answers, cause>>
  /\ IF sc.frame = "missing"
     THEN /\ resp' = AnalyzeResponse("no_frame", aid, "none", 0, FALSE, sc.frame, "not_run")
          /\ UNCHANGED <<logs, warnings, last_warn, accepted, last_accept>>
     ELSE IF sc.frame = "malformed"
     THEN /\ resp' = AnalyzeResponse("decode_failed", aid, "none", 0, FALSE, sc.frame, "not_run")
          /\ UNCHANGED <<logs, warnings, last_warn, accepted, last_accept>>
     ELSE IF ~sc.yolo_ok
     THEN /\ resp' = AnalyzeResponse("yolo_failed", aid, "none", 0, FALSE, sc.frame, "not_run")
          /\ UNCHANGED <<logs, warnings, last_warn, accepted, last_accept>>
     ELSE IF ~sc.db_ok
     THEN /\ resp' = AnalyzeResponse("db_failed", aid, "none", 0, FALSE, sc.frame, "not_run")
          /\ UNCHANGED <<logs, warnings, last_warn, accepted, last_accept>>
     ELSE
       LET d == Detect(sc)
           suspicious == Suspicious(d)
           count == CountAfter(warnings[aid], suspicious, now, last_warn[aid])
           counted == WarningAccepted(suspicious, now, last_warn[aid])
           auto == Escalates(count)
       IN
       /\ logs' = LogAfter(logs, aid, d)
       /\ IF delivered
          THEN /\ warnings' = [warnings EXCEPT ![aid] = IF auto THEN 0 ELSE count]
               /\ last_warn' = [last_warn EXCEPT ![aid] =
                                  IF auto THEN 0 ELSE IF counted THEN now ELSE @]
               /\ accepted' = [accepted EXCEPT ![aid] = IF counted THEN @ + 1 ELSE @]
               /\ last_accept' = [last_accept EXCEPT ![aid] =
                                    IF counted THEN now ELSE @]
          ELSE UNCHANGED <<warnings, last_warn, accepted, last_accept>>
       /\ resp' = AnalyzeResponse(IF delivered THEN "ok" ELSE "cancelled", aid,
                                  suspicious, IF auto THEN 0 ELSE count, auto,
                                  sc.frame, MeshOf(sc))

\* a cycle whose response reaches the client
AnalyzeFrame(aid, sc) == AnalyzeFrameServed(aid, sc, TRUE)

(***************************************************************************)
(* The warning ledger: frames of one running attempt                       *)
(***************************************************************************)
\* the scenes posted in the ledger specification: a clean frame, a frame
\* with nobody in it and a phone, and a frame whose decoding raises
LedgerScenes ==
  {Scene("ok", TRUE, 1, 0, "landmarks", 50, 50, TRUE),
   Scene("ok", TRUE, 0, 80, "none", 50, 50, TRUE),
   Scene("malformed", TRUE, 0, 0, "none", 50, 50, TRUE)}

ProctorTick ==
  /\ now < Epoch + Seconds(MaxProctorSeconds)
  /\ now' = now + 1
  /\ resp' = Response("tick", "none", 0)
  /\ UNCHANGED <<pending, enrolled, test, attempts, answers, logs, warnings, last_warn, accepted,
               last_accept, cause>>

InitProctor ==
  /\ now = Epoch
  /\ enrolled = TRUE
  /\ test = [start_time |-> Epoch, end_time |-> NoTime, duration_minutes |-> 1]
  /\ attempts = <<ComputeDeadline(NewAttempt(Epoch), test)>>
  /\ answers = <<>>
  /\ logs = <<>>
  /\ warnings = [a \in AttemptIds |-> 0]
  /\ last_warn = [a \in AttemptIds |-> 0]
  /\ accepted = [a \in AttemptIds |-> 0]
  /\ last_accept = [a \in AttemptIds |-> 0]
  /\ cause = "none"
  /\ resp = Response("init", "none", 0)
  /\ pending = [r \in Requests |-> IdleRequest]

NextProctor ==
  \/ \E aid \in AttemptIds, sc \in LedgerScenes :
       Len(logs) < MaxLogs /\ AnalyzeFrame(aid, sc)
  \/ ProctorTick

SpecProctor == InitProctor /\ [][NextProctor]_vars

(***************************************************************************)
(* The frame classifier: every kind of frame, on a short log               *)
(***************************************************************************)
\* outcomes of the eye-gaze block: no landmarks, an exception, and eye centres
\* inside, on the edge of and outside the centre box
MeshInputs ==
  {<<"none", 50, 50>>, <<"error", 50, 50>>, <<"landmarks", 50, 50>>,
   <<"landmarks", GazeLowPercent, 50>>, <<"landmarks", 50, GazeHighPercent + 1>>}

FrameScenes ==
  {Scene("missing", TRUE, 0, 0, "none", 50, 50, TRUE),
   Scene("malformed", TRUE, 0, 0, "none", 50, 50, TRUE),
   Scene("undecodable", FALSE, 0, 0, "error", 50, 50, TRUE),
   Scene("undecodable", TRUE, 2, 0, "error", 50, 50, TRUE),
   Scene("ok", FALSE, 0, 0, "none", 50, 50, TRUE),
   Scene("ok", TRUE, 1, 0, "landmarks", 50, 50, FALSE)}
  \cup {Scene("ok", TRUE, p, c, m[1], m[2], m[3], TRUE) :
          p \in 0..2, c \in {MobileConfPercent, MobileConfPercent + 1}, m \in MeshInputs}

\* the clock of the classifier specification advances by whole seconds
FrameTick ==
  /\ now < Epoch + Seconds(MaxFrameSeconds)
  /\ now' = now + Seconds(1)
  /\ resp' = Response("tick", "none", 0)
  /\ UNCHANGED <<pending, enrolled, test, attempts, answers, logs, warnings, last_warn, accepted,
               last_accept, cause>>

NextFrames ==
  \/ \E sc \in FrameScenes :
       Len(logs) < MaxFrameLogs /\ AnalyzeFrame(attempts[1].id, sc)
  \/ FrameTick

SpecFrames == InitProctor /\ [][NextFrames]_vars

(***************************************************************************)
(* Cancellation: frames of one attempt whose response may not arrive       *)
(***************************************************************************)
NextCancel ==
  \/ \E sc \in LedgerScenes, delivered \in BOOLEAN :
       Len(logs) < MaxFrameLogs /\ AnalyzeFrameServed(attempts[1].id, sc, delivered)
  \/ ProctorTick

SpecCancel == InitProctor /\ [][NextCancel]_vars

(***************************************************************************)
(* Forced and manual submission: suspicious frames and submit requests of  *)
(* one running attempt                                                     *)
(***************************************************************************)
\* the frame posted here: nobody in the picture
ForcedScenes == {Scene("ok", TRUE, 0, 0, "none", 50, 50, TRUE)}

NextForced ==
  \/ \E sc \in ForcedScenes :
       Len(logs) < MaxLogs /\ AnalyzeFrame(attempts[1].id, sc)
  \/ \E sel \in Options : AjaxSaveAnswer(0, "submit", sel)
  \/ ProctorTick

SpecForced == InitProctor /\ [][NextForced]_vars

(***************************************************************************)
(* The deadline: start_test on tests with long budgets                     *)
(***************************************************************************)
DeadlineTests ==
  [start_time : {Epoch},
   end_time : {NoTime, Epoch + Minutes(20), Epoch + Minutes(40)},
   duration_minutes : {20, 30}]

DeadlineInstants ==
  {Epoch, Epoch + Seconds(1)} \cup
  {Epoch + Minutes(m) + k :
     m \in {20, 30}, k \in {0 - Seconds(1), 0 - 1, 0, Seconds(1), Seconds(2)}}

TickDeadline ==
  /\ \E t \in DeadlineInstants : t > now /\ now' = t
  /\ resp' = Response("tick", "none", 0)
  /\ UNCHANGED <<pending, enrolled, test, attempts, answers, logs, warnings, last_warn, accepted,
               last_accept, cause>>

InitDeadline ==
  /\ now = Epoch
  /\ enrolled = TRUE
  /\ test \in DeadlineTests
  /\ attempts = <<>>
  /\ answers = <<>>
  /\ logs = <<>>
  /\ warnings = [a \in AttemptIds |-> 0]
  /\ last_warn = [a \in AttemptIds |-> 0]
  /\ accepted = [a \in AttemptIds |-> 0]
  /\ last_accept = [a \in AttemptIds |-> 0]
  /\ cause = "none"
  /\ resp = Response("init", "none", 0)
  /\ pending = [r \in Requests |-> IdleRequest]

NextDeadline ==
  \/ StartTestGet(0)
  \/ TickDeadline

SpecDeadline == InitDeadline /\ [][NextDeadline]_vars

(***************************************************************************)
(* Concurrent requests of one student: the handlers between their queries  *)
(* and their commits.  Every step is one SQL statement or one commit.      *)
(***************************************************************************)
\* start_test (GET, index 0) up to the attempt query: the checks pass and the
\* thread keeps what TestAttempt.query...first() returned
EnterQuery(r) ==
  /\ pending[r].pc = "idle"
  /\ enrolled
  /\ ~NotYetOpen(test, now)
  /\ ~AlreadyClosed(test, now)
  /\ pending' = [pending EXCEPT ![r] =
                   [IdleRequest EXCEPT !.pc = "enter_queried", !.t = now,
                                       !.att = IF attempts = <<>> THEN 0
                                               ELSE attempts[1].id]]
  /\ UNCHANGED <<now, enrolled, test, attempts, answers, logs, warnings, last_warn,
               accepted, last_accept, cause, resp>>

\* start_test from "if not attempt" on: insert the attempt if the query found
\* none, compute the deadline, finalize on timeout or render
EnterFinish(r) ==
  /\ pending[r].pc = "enter_queried"
  /\ LET base == IF pending[r].att = 0
                 THEN Append(attempts, [NewAttempt(pending[r].t) EXCEPT
                                          !.id = Len(attempts) + 1])
                 ELSE attempts
         k == IF pending[r].att = 0 THEN Len(base) ELSE pending[r].att
         att == ComputeDeadline(base[k], test)
     IN  IF RemainingSeconds(att, pending[r].t) <= 0
         THEN /\ attempts' = [base EXCEPT ![k] =
                                Finalize(att, answers, Len(Questions))]
              /\ cause' = FirstCause(cause, "timeout")
              /\ resp' = Response("start_test", "time_over", 0)
         ELSE /\ attempts' = [base EXCEPT ![k] = att]
              /\ cause' = cause
              /\ resp' = Response("start_test", "render", 0)
  /\ pending' = [pending EXCEPT ![r] = IdleRequest]
  /\ UNCHANGED <<now, enrolled, test, answers, logs, warnings, last_warn, accepted,
               last_accept>>

\* ajax_save_answer up to the StudentAnswer query
AjaxQuery(r, qi, action, sel) ==
  /\ pending[r].pc = "idle"
  /\ ~OutOfRange(qi, Len(Questions))
  /\ IF attempts = <<>>
     THEN /\ resp' = Response("ajax_save_answer", "attempt_not_found", 0)
          /\ UNCHANGED pending
     ELSE /\ pending' = [pending EXCEPT ![r] =
                           [IdleRequest EXCEPT
                              !.pc = "ajax_queried", !.qi = qi, !.action = action,
                              !.sel = sel, !.att = attempts[1].id,
                              !.row = FirstRow(answers, attempts[1].id, qi + 1)]]
          /\ UNCHANGED resp
  /\ UNCHANGED <<now, enrolled, test, attempts, answers, logs, warnings, last_warn,
               accepted, last_accept, cause>>

\* the StudentAnswer the thread holds (row i0 of the query, or a new one),
\* changed by the action and committed
RecordAnswerAt(rows, i0, aid, qid, action, sel) ==
  LET rows1 == IF i0 = 0
               THEN Append(rows, [attempt_id |-> aid, question_id |-> qid,
                                  selected_option |-> NoOption, is_correct |-> FALSE,
                                  marked_for_review |-> FALSE])
               ELSE rows
      i == IF i0 = 0 THEN Len(rows1) ELSE i0
  IN  IF action = "mark"
      THEN [rows1 EXCEPT ![i].marked_for_review = TRUE]
      ELSE IF action = "clear"
      THEN [rows1 EXCEPT ![i].selected_option = NoOption,
                         ![i].is_correct = FALSE,
                         ![i].marked_for_review = FALSE]
      ELSE IF sel # NoOption
      THEN [rows1 EXCEPT ![i].selected_option = sel,
                         ![i].is_correct = (sel = correct_option(qid))]
      ELSE rows1

\* what the two count queries and a count of all rows would return on a table
Census(rows, aid) ==
  [correct |-> CountRows(AttemptRows(rows, aid), TRUE),
   wrong |-> CountRows(AttemptRows(rows, aid), FALSE),
   rows |-> Len(AttemptRows(rows, aid))]

\* history: the census of every table that existed while a submit was counting
Witnessed(p, r, rows) ==
  [q \in Requests |->
     IF q # r /\ p[q].pc \in {"submit_recorded", "submit_counted"}
     THEN [p[q] EXCEPT !.window = @ \cup {Census(rows, p[q].att)}]
     ELSE p[q]]

\* ajax_save_answer: the first db.session.commit(); a save answers here
AjaxRecord(r) ==
  /\ pending[r].pc = "ajax_queried"
  /\ LET me == pending[r]
         rows == RecordAnswerAt(answers, me.row, me.att, me.qi + 1, me.action, me.sel)
     IN  /\ answers' = rows
         /\ IF me.action = "submit"
            THEN /\ pending' = Witnessed([pending EXCEPT ![r].pc = "submit_recorded",
                                                        ![r].window = {Census(rows, me.att)}], r, rows)
                 /\ UNCHANGED resp
            ELSE /\ pending' = Witnessed([pending EXCEPT ![r] = IdleRequest], r, rows)
                 /\ resp' = View("ajax_save_answer", "saved",
                                 NavigateAjax(me.qi, me.action, Len(Questions)),
                                 QStates(rows, me.att, me.qi))
  /\ UNCHANGED <<now, enrolled, test, attempts, logs, warnings, last_warn, accepted,
               last_accept, cause>>

\* attempt.correct_answers = ...filter_by(is_correct=True).count()
SubmitCountCorrect(r) ==
  /\ pending[r].pc = "submit_recorded"
  /\ pending' = [pending EXCEPT
                   ![r].pc = "submit_counted",
                   ![r].correct = CountRows(AttemptRows(answers, pending[r].att), TRUE)]
  /\ UNCHANGED <<now, enrolled, test, attempts, answers, logs, warnings, last_warn,
               accepted, last_accept, cause, resp>>

\* attempt.wrong_answers = ...filter_by(is_correct=False).count(), the two
\* other assignments and the commit
SubmitFinish(r) ==
  /\ pending[r].pc = "submit_counted"
  /\ attempts' = [attempts EXCEPT ![pending[r].att] =
                    [@ EXCEPT !.correct_answers = pending[r].correct,
                              !.wrong_answers =
                                 CountRows(AttemptRows(answers, pending[r].att), FALSE),
                              !.total_questions = Len(Questions),
                              !.score = pending[r].correct]]
  /\ cause' = FirstCause(cause, "manual")
  /\ resp' = Response("ajax_save_answer", "submitted", 0)
  /\ pending' = [pending EXCEPT ![r] = IdleRequest]
  /\ UNCHANGED <<now, enrolled, test, answers, logs, warnings, last_warn, accepted,
               last_accept>>

\* the (question_index, action, selected_option) of the concurrent requests
RaceInputs == {0} \X {"save", "submit"} \X Options

InitRace ==
  /\ now = Epoch
  /\ enrolled = TRUE
  /\ test = [start_time |-> Epoch, end_time |-> NoTime, duration_minutes |-> 1]
  /\ attempts = <<>>
  /\ answers = <<>>
  /\ logs = <<>>
  /\ warnings = [a \in AttemptIds |-> 0]
  /\ last_warn = [a \in AttemptIds |-> 0]
  /\ accepted = [a \in AttemptIds |-> 0]
  /\ last_accept = [a \in AttemptIds |-> 0]
  /\ cause = "none"
  /\ resp = Response("init", "none", 0)
  /\ pending = [r \in Requests |-> IdleRequest]

NextRace ==
  \E r \in Requests :
    \/ EnterQuery(r)
    \/ EnterFinish(r)
    \/ \E i \in RaceInputs : AjaxQuery(r, i[1], i[2], i[3])
    \/ AjaxRecord(r)
    \/ SubmitCountCorrect(r)
    \/ SubmitFinish(r)

SpecRace == InitRace /\ [][NextRace]_vars

(***************************************************************************)
(* Overlapping frames of one client.  The Flask session holding the        *)
(* warning keys is loaded when a request comes in and stored with its      *)
(* response; analyze_frame takes no lock between the two.                  *)
(***************************************************************************)
\* a thread that analyses no frame
IdleCycle ==
  [pc |-> "idle", att |-> 0, scene |-> Scene("missing", TRUE, 0, 0, "none", 50, 50, TRUE),
   received |-> 0, warnings |-> [a \in AttemptIds |-> 0],
   last_warn |-> [a \in AttemptIds |-> 0], peers |-> {}]

\* the request comes in: the thread holds the frame and the session the
\* client sent with it
CycleReceive(r, aid, sc) ==
  /\ pending[r].pc = "idle"
  /\ pending' = [pending EXCEPT ![r] =
                   [IdleCycle EXCEPT !.pc = "received", !.att = aid, !.scene = sc,
                                     !.received = now, !.warnings = warnings,
                                     !.last_warn = last_warn]]
  /\ UNCHANGED <<now, enrolled, test, attempts, answers, logs, warnings, last_warn,
               accepted, last_accept, cause, resp>>

\* history: the cycles that completed while another one was being served
Overlapped(p, r, suspicious) ==
  [q \in Requests |->
     IF q = r THEN IdleCycle
     ELSE IF p[q].pc = "received"
     THEN [p[q] EXCEPT !.peers = @ \cup {[att |-> p[r].att, received |-> p[r].received,
                                          suspicious |-> suspicious,
                                          warnings |-> p[r].warnings[p[r].att],
                                          last_warn |-> p[r].last_warn[p[r].att]]}]
     ELSE p[q]]

\* the rest of analyze_frame on the session the request came with; the
\* response stores that session, changed or not, once "Manage warnings" ran
CycleRespond(r) ==
  /\ pending[r].pc = "received"
  /\ LET me == pending[r]
         sc == me.scene
         aid == me.att
         d == Detect(sc)
         suspicious == Suspicious(d)
         count == CountAfter(me.warnings[aid], suspicious, now, me.last_warn[aid])
         counted == WarningAccepted(suspicious, now, me.last_warn[aid])
         auto == Escalates(count)
     IN  IF sc.frame = "missing" \/ sc.frame = "malformed" \/ ~sc.yolo_ok \/ ~sc.db_ok
         THEN /\ resp' = AnalyzeResponse(
                           IF sc.frame = "missing" THEN "no_frame"
                           ELSE IF sc.frame = "malformed" THEN "decode_failed"
                           ELSE IF ~sc.yolo_ok THEN "yolo_failed" ELSE "db_failed",
                           aid, "none", 0, FALSE, sc.frame, "not_run")
              /\ pending' = Overlapped(pending, r, "none")
              /\ UNCHANGED <<logs, warnings, last_warn, accepted, last_accept>>
         ELSE /\ logs' = LogAfter(logs, aid, d)
              /\ warnings' = [me.warnings EXCEPT ![aid] = IF auto THEN 0 ELSE count]
              /\ last_warn' = [me.last_warn EXCEPT ![aid] =
                                 IF auto THEN 0 ELSE IF counted THEN now ELSE @]
              /\ accepted' = [accepted EXCEPT ![aid] = IF counted THEN @ + 1 ELSE @]
              /\ last_accept' = [last_accept EXCEPT ![aid] = IF counted THEN now ELSE @]
              /\ resp' = AnalyzeResponse("ok", aid, suspicious, IF auto THEN 0 ELSE count,
                                         auto, sc.frame, MeshOf(sc))
              /\ pending' = Overlapped(pending, r, suspicious)
  /\ UNCHANGED <<now, enrolled, test, attempts, answers, cause>>

\* frames in flight
InFlight == Cardinality({r \in Requests : pending[r].pc = "received"})

InitOverlap ==
  /\ now = Epoch
  /\ enrolled = TRUE
  /\ test = [start_time |-> Epoch, end_time |-> NoTime, duration_minutes |-> 1]
  /\ attempts = <<ComputeDeadline(NewAttempt(Epoch), test)>>
  /\ answers = <<>>
  /\ logs = <<>>
  /\ warnings = [a \in AttemptIds |-> 0]
  /\ last_warn = [a \in AttemptIds |-> 0]
  /\ accepted = [a \in AttemptIds |-> 0]
  /\ last_accept = [a \in AttemptIds |-> 0]
  /\ cause = "none"
  /\ resp = Response("init", "none", 0)
  /\ pending = [r \in Requests |-> IdleCycle]

NextOverlap ==
  \/ \E r \in Requests, sc \in LedgerScenes :
       /\ Len(logs) + InFlight < MaxFrameLogs
       /\ CycleReceive(r, attempts[1].id, sc)
  \/ \E r \in Requests : CycleRespond(r)
  \/ FrameTick

SpecOverlap == InitOverlap /\ [][NextOverlap]_vars

(***************************************************************************)
(* Two attempts of one student proctored from the same browser: the frames *)
(* of both come with the one session of that client                        *)
(***************************************************************************)
\* the attempt ids whose warning keys the session holds
OpenAttempts == 1..MaxOpenAttempts

InitIsolation ==
  /\ now = Epoch
  /\ enrolled = TRUE
  /\ test = [start_time |-> Epoch, end_time |-> NoTime, duration_minutes |-> 1]
  /\ attempts = <<ComputeDeadline(NewAttempt(Epoch), test)>>
  /\ answers = <<>>
  /\ logs = <<>>
  /\ warnings = [a \in OpenAttempts |-> 0]
  /\ last_warn = [a \in OpenAttempts |-> 0]
  /\ accepted = [a \in OpenAttempts |-> 0]
  /\ last_accept = [a \in OpenAttempts |-> 0]
  /\ cause = "none"
  /\ resp = Response("init", "none", 0)
  /\ pending = [r \in Requests |-> IdleCycle]

NextIsolation ==
  \/ \E r \in Requests, aid \in OpenAttempts, sc \in LedgerScenes :
       /\ Len(logs) + InFlight < MaxFrameLogs
       /\ CycleReceive(r, aid, sc)
  \/ \E r \in Requests : CycleRespond(r)
  \/ FrameTick

SpecIsolation == InitIsolation /\ [][NextIsolation]_vars

(***************************************************************************)
(* The teacher's test report next to the session engine                    *)
(***************************************************************************)
\* Question.marks of the two questions (the column default, and a question
\* worth two marks)
marks(qid) == IF qid = 1 THEN 1 ELSE 2

\* calculate_student_score: the marks of the correct answers of an attempt
RECURSIVE ObtainedMarks(_, _)
ObtainedMarks(rows, aid) ==
  IF rows = <<>> THEN 0
  ELSE (IF Head(rows).attempt_id = aid /\ Head(rows).is_correct
        THEN marks(Head(rows).question_id) ELSE 0)
       + ObtainedMarks(Tail(rows), aid)

\* generate_detailed_test_report: "Recalculate all scores dynamically"
TeacherReport ==
  /\ attempts' = [i \in 1..Len(attempts) |->
                    [attempts[i] EXCEPT !.score = ObtainedMarks(answers, attempts[i].id)]]
  /\ resp' = Response("test_report", "ok", 0)
  /\ UNCHANGED <<pending, now, enrolled, test, answers, logs, warnings, last_warn,
               accepted, last_accept, cause>>

\* the ajax requests sent next to the report
ReportInputs == (0..(Len(Questions) - 1)) \X {"save", "submit"} \X Options

NextReport ==
  \/ \E r \in ReportInputs : AjaxSaveAnswer(r[1], r[2], r[3])
  \/ StartTestGet(0)
  \/ TeacherReport
  \/ Tick

SpecReport == InitProctor /\ [][NextReport]_vars

(***************************************************************************)
(* Properties                                                              *)
(***************************************************************************)
\* the fields of an attempt that a finalize writes, and the recorded cause
Outcome(att) ==
  <<att.correct_answers, att.wrong_answers, att.total_questions, att.score,
    att.auto_submitted_due_to_violation>>

\* C1: once the attempt has been submitted (manual, timeout or violation), no
\* request changes or creates a StudentAnswer row of it.
C1_NoAnswerMutationAfterSubmit ==
  [][cause # "none" => answers' = answers]_vars

\* C2: submitted states are terminal: once finalized, no later request changes
\* the attempt's correct, wrong and total counts, its score or its cause.
C2_SubmittedIsTerminal ==
  [][cause # "none" =>
       /\ attempts' # <<>>
       /\ Outcome(attempts'[1]) = Outcome(attempts[1])
       /\ cause' = cause]_vars

\* C3: a request served when the remaining seconds of the attempt are <= 0
\* creates or modifies no StudentAnswer row; only the timeout submission
\* may happen.
C3_NoScoreBearingActionAfterDeadline ==
  [][(/\ attempts # <<>>
      /\ attempts[1].end_time # NoTime
      /\ RemainingSeconds(attempts[1], now) <= 0
      /\ now' = now)
     => answers' = answers]_vars

\* C4: the analyze_frame cycle that accepts the 5th warning returns
\* auto_submit = true and leaves the attempt finalized for violation
\* (auto_submitted_due_to_violation set).
C4_EscalationFinalizesAttempt ==
  [][\A a \in AttemptIds :
       (accepted[a] = WarnThreshold - 1 /\ accepted'[a] = WarnThreshold)
       => /\ resp'.auto_submit
          /\ attempts'[1].auto_submitted_due_to_violation
          /\ cause' = "violation"]_vars

\* C5: a computed deadline is attempted_at + duration when the test has no
\* end_time, and the earlier of that and test.end_time otherwise, so it never
\* exceeds test.end_time; with no end_time and 30 minutes the remaining
\* seconds are <= 0 from attempted_at + 30 min + 1 s on, and start_test
\* answers "time over".
C5_DeadlineValue ==
  \A i \in 1..Len(attempts) :
    LET a == attempts[i]
        budget == a.attempted_at + Minutes(test.duration_minutes)
    IN  a.end_time # NoTime =>
          /\ test.end_time = NoTime => a.end_time = budget
          /\ test.end_time # NoTime =>
               /\ a.end_time <= test.end_time
               /\ a.end_time <= budget
               /\ a.end_time \in {test.end_time, budget}
          /\ (/\ test.end_time = NoTime
              /\ test.duration_minutes = 30
              /\ now >= a.attempted_at + Minutes(30) + Seconds(1))
             => /\ RemainingSeconds(a, now) <= 0
                /\ resp.op = "start_test" => resp.status = "time_over"

\* C5 witness: start_test has clamped a deadline to test.end_time
C5_Witness ==
  /\ attempts # <<>>
  /\ resp.op = "start_test"
  /\ test.end_time # NoTime
  /\ attempts[1].end_time = test.end_time
  /\ test.end_time < attempts[1].attempted_at + Minutes(test.duration_minutes)

\* C6: once computed, the deadline of an attempt is never changed by any
\* request.
C6_DeadlineSetOnce ==
  [][(attempts # <<>> /\ attempts[1].end_time # NoTime)
     => (attempts' # <<>> /\ attempts'[1].end_time = attempts[1].end_time)]_vars

\* C6 witness: start_test has served, at a later time, an attempt whose
\* deadline had been computed and whose answers had been saved and submitted
C6_Witness ==
  /\ attempts # <<>>
  /\ resp.op = "start_test"
  /\ now > attempts[1].attempted_at
  /\ attempts[1].end_time # NoTime
  /\ answers # <<>>
  /\ cause = "manual"

\* C7: right after any finalize (manual on either path, or timeout) the
\* attempt's correct and wrong counts are the numbers of its StudentAnswer rows
\* with is_correct true and false, and score equals the correct count.
C7_FinalizeRecounts ==
  resp.status \in {"submitted", "time_over"} =>
    /\ attempts # <<>>
    /\ LET a == attempts[1]
           mine == {i \in 1..Len(answers) : answers[i].attempt_id = a.id}
       IN  /\ a.correct_answers = Cardinality({i \in mine : answers[i].is_correct})
           /\ a.wrong_answers = Cardinality({i \in mine : ~answers[i].is_correct})
           /\ a.score = a.correct_answers

\* C7 witness: a timeout finalize of an attempt that was submitted manually
\* before, over two rows of which one is correct
C7_Witness ==
  /\ resp.status = "time_over"
  /\ cause = "manual"
  /\ Len(answers) = 2
  /\ attempts[1].correct_answers = 1
  /\ attempts[1].wrong_answers = 1

\* C8: a manual submit repeated with the same request (at any later time, on
\* either path) leaves every field of the attempt as the first submit left it.
C8_SubmitIdempotent ==
  \A qi \in IndexInputs, sel \in OptionInputs :
    LET a1 == AjaxEffect(Stored, qi, "submit", sel)
        sa == [attempts |-> a1.attempts, answers |-> a1.answers, cause |-> a1.cause]
    IN
    /\ a1.resp.status = "submitted" =>
         AjaxEffect(sa, qi, "submit", sel).attempts = a1.attempts
    /\ \A mark \in BOOLEAN :
         LET p1 == StartTestEffect(Stored, now, "POST", qi, sel, mark, "submit")
             sp == [attempts |-> p1.attempts, answers |-> p1.answers, cause |-> p1.cause]
         IN
         /\ p1.resp.status = "submitted" =>
              /\ AjaxEffect(sp, qi, "submit", sel).attempts = p1.attempts
              /\ \A t2 \in {t \in Instants : t >= now} :
                   StartTestEffect(sp, t2, "POST", qi, sel, mark, "submit").attempts
                     = p1.attempts
         /\ a1.resp.status = "submitted" =>
              \A t2 \in {t \in Instants : t >= now} :
                StartTestEffect(sa, t2, "POST", qi, sel, mark, "submit").attempts
                  = a1.attempts

\* C8 witness: a submit has just been served and counted answers
C8_Witness ==
  /\ resp.op = "ajax_save_answer"
  /\ resp.status = "submitted"
  /\ attempts[1].score = 2

\* C9: a suspicious frame is counted as a warning only if at least 2 seconds
\* have passed since the last accepted warning of the same attempt, and a
\* suspicious frame 3 seconds or more after it is counted.
C9_Debounce ==
  [][\A a \in AttemptIds :
       /\ (accepted'[a] > accepted[a] /\ accepted[a] > 0)
          => now - last_accept[a] >= Seconds(DebounceSeconds)
       /\ (/\ logs' # logs
           /\ resp'.attempt_id = a
           /\ resp'.suspicious # "none"
           /\ now - last_accept[a] >= Seconds(3))
          => accepted'[a] = accepted[a] + 1]_vars

\* C10: auto_submit is returned by exactly the cycles that bring the warning
\* count to 5, such a cycle leaves the count at 0, and the stored count is
\* between 0 and 4 after every completed cycle.
C10_ThresholdResets ==
  [][logs' # logs =>
       LET a == resp'.attempt_id IN
       /\ resp'.auto_submit <=> (warnings[a] = 4 /\ accepted'[a] # accepted[a])
       /\ resp'.auto_submit => (warnings'[a] = 0 /\ resp'.warnings = 0)
       /\ warnings'[a] \in 0..4
       /\ resp'.warnings = warnings'[a]]_vars

\* C10 witness: the cycle of the 5th accepted warning has just ended
C10_Witness ==
  /\ resp.op = "analyze_frame"
  /\ resp.auto_submit
  /\ accepted[resp.attempt_id] = 5
  /\ warnings[resp.attempt_id] = 0

\* the cycle just served wrote exactly one proctoring_log row, for its attempt
\* and with its label
OneRowWritten ==
  /\ Len(logs') = Len(logs) + 1
  /\ SubSeq(logs', 1, Len(logs)) = logs
  /\ logs'[Len(logs')].attempt_id = resp'.attempt_id
  /\ logs'[Len(logs')].suspicious_activity = resp'.suspicious

\* C11 as stated: every analyze_frame cycle whose frame decodes writes exactly
\* one proctoring_log row with its detection booleans and label, whether or
\* not it counted a warning.
C11_EveryDecodedCycleLogs ==
  [][(resp'.op = "analyze_frame" /\ resp'.frame = "ok") => OneRowWritten]_vars

\* C11 amended: every analyze_frame cycle that returns a result writes exactly
\* one proctoring_log row with its label, whether or not it counted a warning
\* (non-suspicious and debounced frames included); a cycle that returns an
\* error (detector exception, failed commit of the row) writes none.
C11_EveryCompletedCycleLogs ==
  [][resp'.op = "analyze_frame" =>
       IF resp'.status = "ok" THEN OneRowWritten ELSE logs' = logs]_vars

\* C11 witness: a suspicious frame was logged although the debounce did not
\* count it
C11_Witness ==
  /\ resp.op = "analyze_frame"
  /\ resp.status = "ok"
  /\ resp.suspicious # "none"
  /\ Len(logs) = 2
  /\ logs[1].suspicious_activity # "none"
  /\ accepted[resp.attempt_id] = 1

\* C12: a cycle whose frame is missing, malformed or not an image returns an
\* error, writes no proctoring_log row and leaves the warning count and the
\* last warning time of the attempt unchanged.
C12_DecodeFailureHasNoEffect ==
  [][(resp'.op = "analyze_frame" /\ resp'.frame \in {"missing", "malformed", "undecodable"})
     => /\ resp'.status # "ok"
        /\ logs' = logs
        /\ warnings' = warnings
        /\ last_warn' = last_warn]_vars

\* the four conditions in the order of precedence, and their labels
Precedence ==
  <<"No face detected", "Multiple people detected", "Mobile phone detected",
    "Eye gaze away">>

ConditionHolds(d, k) ==
  CASE k = 1 -> ~d.face_detected
    [] k = 2 -> d.multiple_faces
    [] k = 3 -> d.mobile_detected
    [] k = 4 -> d.eye_gaze_away

FirstThatHolds(d) ==
  IF \A k \in 1..4 : ~ConditionHolds(d, k) THEN "none"
  ELSE Precedence[CHOOSE k \in 1..4 :
                    ConditionHolds(d, k) /\ \A j \in 1..(k - 1) : ~ConditionHolds(d, j)]

DetectionResults ==
  [face_detected : BOOLEAN, multiple_faces : BOOLEAN, mobile_detected : BOOLEAN,
   eye_gaze_away : BOOLEAN]

\* C13: the label is the first condition of no-face > multiple-faces >
\* mobile-device > gaze-off-screen > none that holds, for every combination of
\* the four detection booleans and in every stored row; no face with a mobile
\* device is labelled no-face.
C13_LabelPrecedence ==
  /\ \A d \in DetectionResults : Suspicious(d) = FirstThatHolds(d)
  /\ \A i \in 1..Len(logs) :
       /\ logs[i].suspicious_activity = FirstThatHolds(logs[i])
       /\ (~logs[i].face_detected /\ logs[i].mobile_detected)
          => logs[i].suspicious_activity = "No face detected"

\* C13 witness: a stored row with no face and a mobile device, and one with
\* a face and a mobile device
C13_Witness ==
  /\ Len(logs) = 2
  /\ ~logs[1].face_detected /\ logs[1].mobile_detected
  /\ logs[2].face_detected /\ logs[2].mobile_detected /\ ~logs[2].multiple_faces
  /\ logs[2].suspicious_activity = "Mobile phone detected"

\* C14: every StudentAnswer row has is_correct = (a selection is stored and it
\* equals the correct_option of its question), after every create, update,
\* resubmission without selection, mark and clear of both paths.
C14_IsCorrectMatchesSelection ==
  \A i \in 1..Len(answers) :
    answers[i].is_correct =
      (/\ answers[i].selected_option # NoOption
       /\ answers[i].selected_option = correct_option(answers[i].question_id))

\* C14 witness: the ajax path has left one correct row and one row with a
\* wrong selection
C14_Witness ==
  /\ resp.op = "ajax_save_answer"
  /\ resp.status = "saved"
  /\ Len(answers) = 2
  /\ answers[1].is_correct
  /\ answers[2].selected_option # NoOption
  /\ ~answers[2].is_correct

\* C15: recording on an existing row with no selection and a different review
\* flag (POST of start_test with any button, "mark" of ajax_save_answer)
\* changes only marked_for_review: selected_option, is_correct and every
\* other row stay as they were.
C15_ReviewFlagOnly ==
  attempts # <<>> =>
    \A qi \in 0..(Len(Questions) - 1) :
      LET i == FirstRow(answers, attempts[1].id, qi + 1)
          flipped == [answers EXCEPT ![i].marked_for_review = ~@]
      IN  i # 0 =>
            /\ \A nav \in NavInputs :
                 LET e == StartTestEffect(Stored, now, "POST", qi, NoOption,
                                          ~answers[i].marked_for_review, nav)
                 IN  e.resp.status \in {"render", "redirect", "submitted"}
                       => e.answers = flipped
            /\ ~answers[i].marked_for_review
                 => AjaxEffect(Stored, qi, "mark", NoOption).answers = flipped

\* C15 witness: start_test has rendered a question whose stored row has a
\* correct selection and the review flag, while time remains
C15_Witness ==
  /\ resp.op = "start_test"
  /\ resp.status = "render"
  /\ answers # <<>>
  /\ answers[1].question_id = resp.index + 1
  /\ answers[1].is_correct
  /\ answers[1].marked_for_review
  /\ RemainingSeconds(attempts[1], now) > 0

\* C16: prev at index 0 and next at the last index leave the index unchanged,
\* elsewhere next gives index + 1 and prev index - 1, on both paths, and every
\* index a handler answers with is within [0, total_questions).
C16_NavigationClamps ==
  LET total == Len(Questions)
      last == Len(Questions) - 1
      Moved(qi, dir) == IF dir = "next" THEN (IF qi = last THEN qi ELSE qi + 1)
                        ELSE (IF qi = 0 THEN qi ELSE qi - 1)
  IN
  /\ resp.status \in {"render", "redirect", "saved"} => resp.index \in 0..last
  /\ \A qi \in 0..last, dir \in {"next", "prev"} :
       /\ NavigatePage(qi, dir, total) = Moved(qi, dir)
       /\ NavigateAjax(qi, dir, total) = Moved(qi, dir)
       /\ Moved(qi, dir) \in 0..last
       /\ \A sel \in OptionInputs :
            /\ LET e == AjaxEffect(Stored, qi, dir, sel)
               IN  e.resp.status = "saved" => e.resp.index = Moved(qi, dir)
            /\ \A mark \in BOOLEAN :
                 LET e == StartTestEffect(Stored, now, "POST", qi, sel, mark, dir)
                 IN  /\ e.resp.status = "redirect"
                          => (e.resp.index = Moved(qi, dir) /\ Moved(qi, dir) # qi)
                     /\ e.resp.status = "render"
                          => (e.resp.index = qi /\ Moved(qi, dir) = qi)

\* C16 witness: the POST handler has redirected from index 1 back to index 0
C16_Witness ==
  /\ resp.op = "start_test"
  /\ resp.status = "redirect"
  /\ resp.index = 0
  /\ answers # <<>>

\* C17: start_test answers "not enrolled" when there is no enrollment, "not
\* yet open" when now < test.start_time and "already closed" exactly when
\* test.end_time is set and now > test.end_time; in each of these cases no
\* attempt is created and no attempt, deadline or StudentAnswer is changed.
C17_EnterTestErrors ==
  \A method \in {"GET", "POST"}, r \in PostInputs :
    LET e == StartTestEffect(Stored, now, method, r[1], r[2], r[3], r[4])
        refused == e.resp.status \in {"not_enrolled", "not_yet_open", "already_closed"}
    IN
    /\ ~enrolled => e.resp.status = "not_enrolled"
    /\ (enrolled /\ test.start_time # NoTime /\ now < test.start_time)
         => e.resp.status = "not_yet_open"
    /\ (enrolled /\ (test.start_time # NoTime => now >= test.start_time))
         => (e.resp.status = "already_closed"
               <=> (test.end_time # NoTime /\ now > test.end_time))
    /\ refused => (e.attempts = attempts /\ e.answers = answers /\ e.cause = cause)

\* C17 witness: start_test has refused a closed test to a student whose
\* attempt and answers exist
C17_Witness ==
  /\ resp.op = "start_test"
  /\ resp.status = "already_closed"
  /\ attempts # <<>>
  /\ answers # <<>>

\* C18: a request at a question index outside [0, total_questions) gets no
\* question view and no saved answer: start_test redirects to index 0,
\* ajax_save_answer answers "invalid index", and no StudentAnswer row is
\* created or changed.
C18_OutOfRangeHasNoEffect ==
  \A qi \in {q \in IndexInputs : q >= Len(Questions)} :
    /\ \A method \in {"GET", "POST"} :
         LET e == StartTestEffect(Stored, now, method, qi, NoOption, FALSE, "none")
         IN  /\ e.resp.status \notin {"render", "redirect", "submitted"}
             /\ e.answers = answers
    /\ LET e == AjaxEffect(Stored, qi, "save", NoOption)
       IN  /\ e.resp.status \in {"invalid_index", "attempt_not_found"}
           /\ e.answers = answers
           /\ e.attempts = attempts

\* C18 witness: ajax_save_answer has refused an index while answers exist
C18_Witness ==
  /\ resp.op = "ajax_save_answer"
  /\ resp.status = "invalid_index"
  /\ answers # <<>>

\* C19: at most one TestAttempt row exists for the student and the test, in
\* every state and under every interleaving of concurrent start_test requests.
C19_OneAttemptPerStudentAndTest ==
  Len(attempts) <= 1

\* C20: under every interleaving of saves and a submit of one attempt, the
\* correct and wrong counts a finalize stores are the counts over the
\* StudentAnswer rows of one single state of the table, and their sum is the
\* number of rows of that state.
C20_FinalizeCountsOneState ==
  [][\A r \in Requests :
       (pending[r].pc = "submit_counted" /\ pending'[r].pc = "idle")
       => \E c \in pending[r].window :
            LET a == attempts'[pending[r].att]
            IN  /\ a.correct_answers = c.correct
                /\ a.wrong_answers = c.wrong
                /\ a.correct_answers + a.wrong_answers = c.rows]_vars

\* C21: an analyze_frame cycle either records its row and updates the warning
\* state according to the frame, or fails and leaves neither a row nor a
\* change of the warning state; no row of a suspicious frame outside the
\* debounce window is recorded without its warning being counted.
C21_CycleIsAtomic ==
  [][resp'.op = "analyze_frame" =>
       LET a == resp'.attempt_id IN
       IF logs' = logs
       THEN warnings' = warnings /\ last_warn' = last_warn
       ELSE (/\ resp'.suspicious # "none"
             /\ now - last_warn[a] > Seconds(DebounceSeconds))
            => (/\ accepted'[a] = accepted[a] + 1
                /\ (warnings'[a] = warnings[a] + 1 \/ resp'.auto_submit)
                /\ (last_warn'[a] = now \/ resp'.auto_submit))]_vars

\* C22: a request served for an attempt that is not yet finalized, at a time
\* when its remaining seconds are <= 0 (also after test.end_time when the
\* deadline was clamped to it), finalizes the attempt for timeout, with counts
\* and score recomputed, before it returns.
C22_TimeoutOnNextAccess ==
  [][(/\ attempts # <<>>
      /\ attempts[1].end_time # NoTime
      /\ RemainingSeconds(attempts[1], now) <= 0
      /\ cause = "none"
      /\ resp'.op \in {"start_test", "ajax_save_answer"}
      /\ enrolled)
     => /\ cause' = "timeout"
        /\ attempts'[1] = Finalize(attempts[1], answers, Len(Questions))
        /\ answers' = answers]_vars

\* C23: when a forced submit for violation and a manual submit meet on one
\* attempt, the first cause to land is the one recorded: the cycle that
\* returns auto_submit records the violation unless a cause is recorded
\* already, and once a cause is recorded no later finalize changes the cause,
\* the counts or the score.
C23_FirstCauseWins ==
  [][/\ (resp'.op = "analyze_frame" /\ resp'.auto_submit)
        => /\ cause' = FirstCause(cause, "violation")
           /\ attempts'[1].auto_submitted_due_to_violation = (cause' = "violation")
     /\ cause # "none"
        => /\ cause' = cause
           /\ Outcome(attempts'[1]) = Outcome(attempts[1])]_vars

\* C24: proctoring_log rows are only appended, never changed or deleted, and
\* the row written by a cycle has its auto_submitted flag set exactly when
\* that cycle returns auto_submit = true.
C24_AppendOnlyWithEscalationFlag ==
  [][/\ Len(logs') >= Len(logs)
     /\ SubSeq(logs', 1, Len(logs)) = logs
     /\ logs' # logs
        => /\ Len(logs') = Len(logs) + 1
           /\ resp'.op = "analyze_frame"
           /\ logs'[Len(logs')].auto_submitted = resp'.auto_submit]_vars

\* the visit state of question index idx, from the stored rows of the attempt
\* and the requested index qi
VisitState(idx, qi) ==
  LET mine == {i \in 1..Len(answers) :
                 /\ answers[i].attempt_id = attempts[1].id
                 /\ answers[i].question_id = idx + 1}
  IN  IF \E i \in mine : answers[i].marked_for_review THEN "review"
      ELSE IF \E i \in mine : answers[i].selected_option # NoOption THEN "answered"
      ELSE IF mine # {} \/ idx = qi THEN "visited"
      ELSE "not_visited"

\* C25: the q_states of a rendered page and of an ajax response give, for
\* every question index: review if its row is marked for review, else
\* answered if it has a selection, else visited if a row exists or the index
\* is the requested one, else not_visited; nothing but the stored rows and
\* the requested index enters.
C25_VisitStates ==
  /\ (resp.op = "start_test" /\ resp.status = "render")
       => /\ Len(resp.q_states) = Len(Questions)
          /\ \A idx \in 0..(Len(Questions) - 1) :
               resp.q_states[idx + 1] = VisitState(idx, resp.index)
  /\ (resp.op = "ajax_save_answer" /\ resp.status = "saved")
       => /\ Len(resp.q_states) = Len(Questions)
          /\ \E qi \in 0..(Len(Questions) - 1) :
               \A idx \in 0..(Len(Questions) - 1) :
                 resp.q_states[idx + 1] = VisitState(idx, qi)

\* C25 witness: a page was rendered at index 1 with question 0 marked for
\* review and answered, and question 1 without a row
C25_Witness ==
  /\ resp.op = "start_test"
  /\ resp.status = "render"
  /\ resp.index = 1
  /\ resp.q_states = <<"review", "visited">>
  /\ Len(answers) = 1
  /\ answers[1].selected_option # NoOption

\* C26: every request that records an answer leaves marked_for_review equal
\* to the value it supplies: the "mark" field of a POST to start_test; on the
\* ajax path TRUE for the action "mark" and FALSE for a save (save, next,
\* prev, submit), whatever the flag was before.
C26_ReviewFlagOverwritten ==
  attempts # <<>> =>
    \A qi \in 0..(Len(Questions) - 1), sel \in OptionInputs :
      /\ \A mark \in BOOLEAN, nav \in NavInputs :
           LET e == StartTestEffect(Stored, now, "POST", qi, sel, mark, nav)
           IN  e.resp.status \in {"render", "redirect", "submitted"}
                 => e.answers[FirstRow(e.answers, attempts[1].id, qi + 1)].marked_for_review
                      = mark
      /\ \A action \in {"save", "next", "prev", "submit", "mark"} :
           LET e == AjaxEffect(Stored, qi, action, IF action = "mark" THEN NoOption ELSE sel)
           IN  e.answers[FirstRow(e.answers, attempts[1].id, qi + 1)].marked_for_review
                 = (action = "mark")

\* C27: a request that records an answer, served twice in a row with the same
\* question, selection and mark (either path, any button or action), leaves
\* the StudentAnswer rows after the second time equal to those after the
\* first; the second creates no row.
C27_RecordAnswerIdempotent ==
  /\ \A r \in PostInputs :
       LET p1 == StartTestEffect(Stored, now, "POST", r[1], r[2], r[3], r[4])
           s1 == [attempts |-> p1.attempts, answers |-> p1.answers, cause |-> p1.cause]
       IN  p1.resp.status \in {"render", "redirect", "submitted"}
             => StartTestEffect(s1, now, "POST", r[1], r[2], r[3], r[4]).answers
                  = p1.answers
  /\ \A r \in AjaxInputs :
       LET a1 == AjaxEffect(Stored, r[1], r[2], r[3])
           s1 == [attempts |-> a1.attempts, answers |-> a1.answers, cause |-> a1.cause]
       IN  a1.resp.status \in {"saved", "submitted"}
             => AjaxEffect(s1, r[1], r[2], r[3]).answers = a1.answers

\* C27 witness: the POST handler has created the row of question 1 with a
\* selection and the review flag, next to the row of question 0
C27_Witness ==
  /\ resp.op = "start_test"
  /\ resp.status = "render"
  /\ resp.index = 1
  /\ Len(answers) = 2
  /\ answers[2].question_id = 2
  /\ answers[2].selected_option # NoOption
  /\ answers[2].marked_for_review

\* C28: when the landmark extraction fails on a decoded frame, by returning
\* no landmarks or by raising, the row written has face_detected = FALSE and
\* the cycle is labelled "No face detected".
C28_LandmarkFailureIsNoFace ==
  [][(/\ resp'.op = "analyze_frame"
      /\ resp'.status = "ok"
      /\ resp'.frame = "ok"
      /\ resp'.mesh \in {"none", "error"})
     => /\ logs' # logs
        /\ ~logs'[Len(logs')].face_detected
        /\ resp'.suspicious = "No face detected"]_vars

\* C29: a request that carries a selection together with next, prev or
\* submit stores the answer and its is_correct before it navigates or
\* finalizes, on both paths; the score a submit stores counts the answer of
\* that same request.
C29_SaveThenMove ==
  attempts # <<>> =>
    \A qi \in 0..(Len(Questions) - 1), sel \in Options, nav \in {"next", "prev", "submit"} :
      LET Saved(e) ==
            LET row == e.answers[FirstRow(e.answers, attempts[1].id, qi + 1)]
            IN  /\ row.selected_option = sel
                /\ row.is_correct = (sel = correct_option(qi + 1))
          Counted(e) ==
            /\ e.attempts[1].score =
                 Cardinality({i \in 1..Len(e.answers) : e.answers[i].is_correct})
            /\ (sel = correct_option(qi + 1)) => e.attempts[1].score >= 1
      IN
      /\ \A mark \in BOOLEAN :
           LET e == StartTestEffect(Stored, now, "POST", qi, sel, mark, nav)
           IN  /\ e.resp.status \in {"render", "redirect", "submitted"} => Saved(e)
               /\ e.resp.status = "submitted" => Counted(e)
      /\ LET e == AjaxEffect(Stored, qi, nav, sel)
         IN  /\ Saved(e)
             /\ e.resp.status = "submitted" => Counted(e)

\* C29 witness: a submit of the POST handler has stored the only answer and
\* a score that counts it
C29_Witness ==
  /\ resp.op = "start_test"
  /\ resp.status = "submitted"
  /\ Len(answers) = 1
  /\ answers[1].is_correct
  /\ attempts[1].score = 1

\* C30: start_test for a student who has an attempt of the test keeps that
\* attempt (same row, same attempted_at) and creates no other; the attempt is
\* created only by the first start_test that passes the checks, with
\* attempted_at equal to the time of that request.
C30_StartedAtKept ==
  [][/\ attempts # <<>>
        => /\ Len(attempts') = 1
           /\ attempts'[1].id = attempts[1].id
           /\ attempts'[1].attempted_at = attempts[1].attempted_at
     /\ (attempts = <<>> /\ attempts' # <<>>)
        => /\ resp'.op = "start_test"
           /\ Len(attempts') = 1
           /\ attempts'[1].attempted_at = now]_vars

\* C30 witness: start_test has rendered a question for an attempt created by
\* an earlier request
C30_Witness ==
  /\ resp.op = "start_test"
  /\ resp.status = "render"
  /\ attempts # <<>>
  /\ now > attempts[1].attempted_at
  /\ attempts[1].attempted_at > Epoch

\* C31: there is at most one StudentAnswer row per (attempt, question) in
\* every state, also when two saves of the same question of the same attempt
\* interleave, and no step deletes a row or moves it to another question.
C31_OneRecordPerQuestion ==
  [][/\ \A i, j \in 1..Len(answers') :
          (/\ answers'[i].attempt_id = answers'[j].attempt_id
           /\ answers'[i].question_id = answers'[j].question_id) => i = j
     /\ Len(answers') >= Len(answers)
     /\ \A i \in 1..Len(answers) :
          /\ answers'[i].attempt_id = answers[i].attempt_id
          /\ answers'[i].question_id = answers[i].question_id]_vars

\* C32: a suspicious frame analysed exactly 2 seconds after the last accepted
\* warning of its attempt is accepted: the warning count the cycle works on
\* grows by one.
C32_ExactlyTwoSecondsAccepted ==
  [][\A a \in AttemptIds :
       (/\ resp'.op = "analyze_frame"
        /\ resp'.status = "ok"
        /\ resp'.attempt_id = a
        /\ resp'.suspicious # "none"
        /\ accepted[a] > 0
        /\ now - last_accept[a] = Seconds(DebounceSeconds))
       => /\ accepted'[a] = accepted[a] + 1
          /\ (resp'.auto_submit \/ resp'.warnings = warnings[a] + 1)]_vars

\* C33: two overlapping cycles of one attempt lose no warning: when a cycle
\* with a suspicious frame completes, and a cycle with a suspicious frame
\* received more than 2 seconds earlier or later completed while it was being
\* served, both having come with the same stored warning state (count n, last
\* warning more than 2 seconds before either), the stored count is n + 2.
C33_OverlapLosesNoWarning ==
  [][\A r \in Requests :
       (/\ pending[r].pc = "received"
        /\ pending'[r].pc = "idle"
        /\ resp'.status = "ok"
        /\ resp'.suspicious # "none")
       => \A p \in pending[r].peers :
            LET me == pending[r]
                Apart(a, b) == a - b > Seconds(DebounceSeconds)
            IN  (/\ p.att = me.att
                 /\ p.suspicious # "none"
                 /\ Apart(me.received, p.received) \/ Apart(p.received, me.received)
                 /\ p.warnings = me.warnings[me.att]
                 /\ p.last_warn = me.last_warn[me.att]
                 /\ Apart(me.received, me.last_warn[me.att])
                 /\ Apart(p.received, p.last_warn)
                 /\ me.warnings[me.att] + 2 < WarnThreshold)
                => warnings'[me.att] = me.warnings[me.att] + 2]_vars

\* C34: a completed analyze_frame cycle of one attempt leaves the warning
\* count and the last warning time of every other attempt as they were, and
\* changes no TestAttempt row and no StudentAnswer row of another attempt.
C34_IsolatedPerAttempt ==
  [][resp'.op = "analyze_frame" =>
       /\ \A a \in DOMAIN warnings :
            a # resp'.attempt_id =>
              /\ warnings'[a] = warnings[a]
              /\ last_warn'[a] = last_warn[a]
       /\ Len(attempts') = Len(attempts)
       /\ \A i \in 1..Len(attempts) :
            attempts[i].id # resp'.attempt_id => attempts'[i] = attempts[i]
       /\ Len(answers') = Len(answers)
       /\ \A i \in 1..Len(answers) :
            answers[i].attempt_id # resp'.attempt_id => answers'[i] = answers[i]]_vars

\* C35: a completed cycle whose frame shows no suspicious condition leaves
\* the warning count and the last warning time of its attempt as they were,
\* returns that count and returns auto_submit = FALSE.
C35_CleanFrameLeavesLedger ==
  [][\A a \in AttemptIds :
       (/\ resp'.op = "analyze_frame"
        /\ resp'.status = "ok"
        /\ resp'.attempt_id = a
        /\ resp'.suspicious = "none")
       => /\ warnings'[a] = warnings[a]
          /\ last_warn'[a] = last_warn[a]
          /\ accepted'[a] = accepted[a]
          /\ resp'.warnings = warnings[a]
          /\ ~resp'.auto_submit]_vars

\* C35 witness: a clean frame has been analysed at a stored count of 4, more
\* than 2 seconds after the last warning
C35_Witness ==
  /\ resp.op = "analyze_frame"
  /\ resp.status = "ok"
  /\ resp.suspicious = "none"
  /\ ~resp.auto_submit
  /\ warnings[resp.attempt_id] = WarnThreshold - 1
  /\ now - last_warn[resp.attempt_id] > Seconds(DebounceSeconds)
  /\ logs[Len(logs)].suspicious_activity = "none"

\* C36: in every state of an attempt score equals correct_answers: both are
\* 0 when the attempt is created and whatever writes one writes the other to
\* the same value.
C36_ScoreIsCorrectCount ==
  \A i \in 1..Len(attempts) : attempts[i].score = attempts[i].correct_answers

\* C37: right after a finalize of requests served one at a time,
\* total_questions is the number of questions of the test, correct_answers +
\* wrong_answers is the number of StudentAnswer rows of the attempt, which is
\* at most total_questions, and the rows without a selection are among the
\* wrong ones.
C37_TotalsAfterFinalize ==
  resp.status \in {"submitted", "time_over"} =>
    /\ attempts # <<>>
    /\ LET a == attempts[1]
           mine == {i \in 1..Len(answers) : answers[i].attempt_id = a.id}
           blank == {i \in mine : answers[i].selected_option = NoOption}
       IN  /\ a.total_questions = Len(Questions)
           /\ a.correct_answers + a.wrong_answers = Cardinality(mine)
           /\ Cardinality(mine) <= a.total_questions
           /\ \A i \in blank : ~answers[i].is_correct
           /\ a.wrong_answers >= Cardinality(blank)

\* C37 witness: a submit has counted one correct answer and one row that was
\* only marked for review
C37_Witness ==
  /\ resp.status = "submitted"
  /\ Len(answers) = 2
  /\ attempts[1].correct_answers = 1
  /\ attempts[1].wrong_answers = 1
  /\ attempts[1].total_questions = 2
  /\ \E i \in 1..2 : answers[i].selected_option = NoOption /\ answers[i].marked_for_review

====
